---- MODULE Spec2Model ----
(***************************************************************************)
(* A model of polyclip's boolean operations on polygons: the trivial-result *)
(* shortcuts and the sweep loop of Polygon::calculate (src/src/polygon.rs), *)
(* the sweep events and their comparator (src/src/sweep_event.rs), the      *)
(* Connector and its point chains (src/src/connector.rs,                    *)
(* src/src/point_chain.rs) and line_intersect (src/src/point.rs).           *)
(*                                                                         *)
(* Coordinates are integers; the quotients line_intersect computes are      *)
(* kept exact, as numerator and denominator.                                *)
(***************************************************************************)
EXTENDS Integers, Sequences, FiniteSets, TLC

VARIABLES
    operation_type,   \* the BoolOpType of the call
    subject,          \* self
    clipping,         \* other
    pc,               \* "call" | "loop" | "flush" | "done" | "panic" | "geometry"
                      \* | "classify" | "classified" | "intersect" | "intersected"
                      \* | "connector" | "link" | "linked" | "divided"
    result,           \* what calculate returned
    events,           \* both vectors of sweep events, the subject's first
    event_queue,      \* the BinaryHeap, as the set of queued event indices
    sweep_line,       \* the BTreeSet, as the sequence of its event indices
    open_polygons,    \* Connector::open_polygons
    closed_polygons,  \* Connector::closed_polygons
    out_of_bounds,    \* an out-of-bounds chain has been read (release build)
    first_call,       \* the result of the same operation with the operands exchanged
    segs,             \* the four points handed to line_intersect
    li                \* what line_intersect returned

vars == << operation_type, subject, clipping, pc, result, events, event_queue,
           sweep_line, open_polygons, closed_polygons, out_of_bounds,
           first_call, segs, li >>

-----------------------------------------------------------------------------
(* Bounds of the model *)

\* the clipping polygon is a shape moved by 0..MaxShift along x, or along both axes
MaxShift == 2
\* divide_segment is applied at most MaxDivides times in a run
MaxDivides == 1
\* the chains of a Connector driven on its own hold fewer than MaxNodes points
\* before a segment is added
MaxNodes == 5
\* the chains handed to link_point_chain on its own hold 2..MaxChainLen points
MaxChainLen == 3
\* line_intersect is applied to points of the grid 0..GridMax x 0..GridMax
GridMax == 2

-----------------------------------------------------------------------------
(* Points, polygons and bounding boxes *)

Pt(px, py) == [x |-> px, y |-> py]

\* Polygon::default() with the given nodes
Polygon(ns) == [nodes |-> ns, is_hole |-> FALSE, is_closed |-> TRUE, winding |-> "None"]

SeqMax(S) == CHOOSE m \in S : \A n \in S : n <= m
SeqMin(S) == CHOOSE m \in S : \A n \in S : m <= n

calculate_bounding_box(nodes) ==
    [ top    |-> SeqMax({nodes[i].y : i \in 1..Len(nodes)}),
      bottom |-> SeqMin({nodes[i].y : i \in 1..Len(nodes)}),
      left   |-> SeqMin({nodes[i].x : i \in 1..Len(nodes)}),
      right  |-> SeqMax({nodes[i].x : i \in 1..Len(nodes)}) ]

overlaps_touching_excluded(self, other) ==
    ~( (other.left >= self.right) \/ (other.right < self.left)
       \/ (other.top < self.bottom) \/ (other.bottom > self.top) )

overlaps(self, other) ==
    ~( (other.left > self.right) \/ (other.right < self.left)
       \/ (other.top < self.bottom) \/ (other.bottom > self.top) )

calculate_signed_area3(p0, p1, p2) ==
    (p0.x - p2.x) * (p1.y - p2.y) - (p1.x - p2.x) * (p0.y - p2.y)

-----------------------------------------------------------------------------
(* line_intersect: Some((point, None)) or None.  The point is the pair      *)
(* (xn / d, yn / d).                                                        *)

None == [kind |-> "None"]

line_intersect_open_interval(p0, p1, p2, p3) ==
    LET s1_x == p1.x - p0.x
        s1_y == p1.y - p0.y
        s2_x == p3.x - p2.x
        s2_y == p3.y - p2.y
        coef_div == (0 - s2_x) * s1_y + s1_x * s2_y
        s_num == (0 - s1_y) * (p0.x - p2.x) + s1_x * (p0.y - p2.y)
        t_num == s2_x * (p0.y - p2.y) - s2_y * (p0.x - p2.x)
        sg == IF coef_div > 0 THEN 1 ELSE -1
    IN  IF coef_div = 0
        THEN [kind |-> "Some", xn |-> p0.x, yn |-> p0.y, d |-> 1, second |-> None]
        ELSE IF /\ sg * t_num > 0 /\ sg * t_num <= sg * coef_div
                /\ sg * s_num >= 0 /\ sg * s_num <= sg * coef_div
             THEN [kind |-> "Some",
                   xn |-> p0.x * coef_div + t_num * s1_x,
                   yn |-> p0.y * coef_div + t_num * s1_y,
                   d |-> coef_div, second |-> None]
             ELSE None

line_intersect(p0, p1, p2, p3) ==
    LET s1_x == p1.x - p0.x
        s1_y == p1.y - p0.y
        s2_x == p3.x - p2.x
        s2_y == p3.y - p2.y
        coef_div == (0 - s2_x) * s1_y + s1_x * s2_y
        \* s = s_num / coef_div, t = t_num / coef_div
        s_num == (0 - s1_y) * (p0.x - p2.x) + s1_x * (p0.y - p2.y)
        t_num == s2_x * (p0.y - p2.y) - s2_y * (p0.x - p2.x)
        sg == IF coef_div > 0 THEN 1 ELSE -1
    IN  IF coef_div = 0
        THEN [kind |-> "Some", xn |-> p0.x, yn |-> p0.y, d |-> 1, second |-> None]
        ELSE IF /\ sg * t_num >= 0 /\ sg * t_num <= sg * coef_div
                /\ sg * s_num >= 0 /\ sg * s_num <= sg * coef_div
             THEN [kind |-> "Some",
                   xn |-> p0.x * coef_div + t_num * s1_x,
                   yn |-> p0.y * coef_div + t_num * s1_y,
                   d |-> coef_div, second |-> None]
             ELSE None

-----------------------------------------------------------------------------
(* Sweep events.  An event's `other` is the index of its twin in `events`.  *)

SweepEvent(point, twin, is_left, ptype) ==
    [ p |-> point, other |-> twin, left |-> is_left, polygon_type |-> ptype,
      position_in_sweep_line |-> 0, in_out |-> FALSE, is_inside |-> FALSE,
      edge_type |-> "Normal" ]

e1_left_upper_of_vertical(cur_point, next_point) ==
    IF cur_point.x < next_point.x THEN TRUE
    ELSE IF cur_point.x > next_point.x THEN FALSE
    ELSE IF cur_point.y < next_point.y THEN FALSE
    ELSE TRUE

\* is the first event of the edge (cur_point, next_point) its left endpoint
e1_left(cur_point, next_point) ==
    IF cur_point.x < next_point.x THEN TRUE
    ELSE IF cur_point.x > next_point.x THEN FALSE
    ELSE IF cur_point.y < next_point.y THEN TRUE
    ELSE FALSE

\* the events of one polygon; `base` is the number of events stored before them
create_sweep_events(nodes, polygon_type, base) ==
    LET n == Len(nodes)
        edge(k) == (k + 1) \div 2
        cur(k) == nodes[edge(k)]
        next(k) == nodes[(edge(k) % n) + 1]
    IN  [ k \in 1..(2 * n) |->
            IF k % 2 = 1
            THEN SweepEvent(cur(k), base + k + 1, e1_left(cur(k), next(k)), polygon_type)
            ELSE SweepEvent(next(k), base + k - 1, ~e1_left(cur(k), next(k)), polygon_type) ]

\* SweepEvent::below: is the segment (p, other->p) of event i below point pt
below(ev, i, pt) ==
    IF ev[i].left
    THEN calculate_signed_area3(ev[i].p, ev[ev[i].other].p, pt) > 0
    ELSE calculate_signed_area3(ev[ev[i].other].p, ev[i].p, pt) > 0

above(ev, i, pt) == ~below(ev, i, pt)

\* SweepEvent::compare: TRUE means event i is processed after event j
compare(ev, i, j) ==
    IF ev[i].p.x > ev[j].p.x THEN TRUE
    ELSE IF ev[j].p.x > ev[i].p.x THEN FALSE
    ELSE IF ev[i].p # ev[j].p THEN ev[i].p.y > ev[j].p.y
    ELSE IF ev[i].left # ev[j].left THEN ev[i].left
    ELSE above(ev, i, ev[ev[i].other].p)

\* Ord for SweepEventRef
cmp(ev, i, j) == IF compare(ev, i, j) THEN "Greater" ELSE "Less"

heap_top_yields_nothing(ev, queue) == {}

\* BinaryHeap::pop yields a greatest element: one that no other queued event
\* is strictly greater than.  Which one among several is the heap's choice.
heap_top(ev, queue) ==
    { e \in queue : \A f \in queue \ {e} :
          ~(cmp(ev, f, e) = "Greater" /\ cmp(ev, e, f) = "Less") }

\* BTreeSet insertion: the index at which event e lands in the ordered set
insert_return_index(ev, line, e) ==
    Cardinality({ k \in 1..Len(line) : cmp(ev, e, line[k]) = "Greater" })

InsertAt(s, idx, e) == SubSeq(s, 1, idx) \o << e >> \o SubSeq(s, idx + 1, Len(s))

\* SweepEvent::set_inside_flag_of_left_endpoint on event `self`; `previous` is
\* the index of the predecessor, 0 for Option::None.  The test of the Some arm
\* compares the addresses of the two events.
set_inside_flag_of_left_endpoint(ev, self, previous) ==
    IF previous = 0
    THEN [ev EXCEPT ![self].is_inside = FALSE, ![self].in_out = FALSE]
    ELSE IF self = previous
    THEN [ev EXCEPT ![self].is_inside = ev[previous].is_inside,
                    ![self].in_out = ~ev[previous].in_out]
    ELSE [ev EXCEPT ![self].is_inside = ~ev[previous].in_out,
                    ![self].in_out = ~ev[previous].is_inside]

divide_segment_keeps_flags(ev, event, divide_pt) ==
    LET right == Len(ev) + 1
        left == Len(ev) + 2
        twin == ev[event].other
        pushed == ev \o << [ SweepEvent(divide_pt, twin, FALSE, ev[event].polygon_type)
                               EXCEPT !.edge_type = ev[event].edge_type ],
                           [ SweepEvent(divide_pt, twin, TRUE, ev[event].polygon_type)
                               EXCEPT !.edge_type = ev[event].edge_type ] >>
        relinked == [pushed EXCEPT ![twin].other = left]
    IN  [relinked EXCEPT ![event].other = right]

\* divide_segment (nested in possible_intersection): the events after the call.
\* The two events pushed to event_holder get the indices after the existing ones:
\* the right event first, the left event last.
divide_segment(ev, event, divide_pt) ==
    LET right == Len(ev) + 1
        left == Len(ev) + 2
        twin == ev[event].other
        pushed == ev \o << [ SweepEvent(divide_pt, twin, FALSE, ev[event].polygon_type)
                               EXCEPT !.edge_type = ev[event].edge_type ],
                           [ SweepEvent(divide_pt, twin, TRUE, ev[event].polygon_type)
                               EXCEPT !.edge_type = ev[event].edge_type ] >>
        flagged == IF compare(pushed, left, twin)
                   THEN [pushed EXCEPT ![twin].left = TRUE, ![left].left = FALSE]
                   ELSE pushed
        relinked == [flagged EXCEPT ![twin].other = left]
    IN  [relinked EXCEPT ![event].other = right]

\* possible_intersection(e1, e2): the events after the call.  Every statement
\* of the function that would change an event or the queue is commented out in
\* the source, so each of its paths leaves the events as they are.
possible_intersection(ev, e1, e2) ==
    LET e1_other_p == ev[ev[e1].other].p
        e2_other_p == ev[ev[e2].other].p
        found == line_intersect(ev[e1].p, e1_other_p, ev[e2].p, e2_other_p)
    IN  IF found = None
        THEN ev                       \* no intersections found
        ELSE IF found.second # None
        THEN IF ev[e1].polygon_type = ev[e2].polygon_type
             THEN ev                  \* "A polygon has overlapping edges"
             ELSE ev                  \* the line segments overlap: nothing is done
        ELSE IF ~(ev[e1].p = ev[e2].p \/ e1_other_p = e2_other_p)
        THEN ev                       \* the calls of divide_segment are comments
        ELSE ev                       \* intersection at an endpoint of both

-----------------------------------------------------------------------------
(* Point chains *)

Reverse(s) == [ k \in 1..Len(s) |-> s[Len(s) + 1 - k] ]
Front(s) == SubSeq(s, 1, Len(s) - 1)
Swap(s, a, b) == [ s EXCEPT ![a] = s[b], ![b] = s[a] ]

Segment(b, e) == [begin_pt |-> b, end_pt |-> e]

PointChain_init_end_first(segment) ==
    [nodes |-> << segment.end_pt, segment.begin_pt >>, is_closed |-> FALSE]

\* PointChain::init
PointChain_init(segment) ==
    [nodes |-> << segment.begin_pt, segment.end_pt >>, is_closed |-> FALSE]

link_segment_repeats_first_point(self, segment) ==
    LET first_elem == Head(self.nodes)
        last_elem == self.nodes[Len(self.nodes)]
        closed == [nodes |-> Append(self.nodes, first_elem), is_closed |-> TRUE]
        push_front(pt) == [self EXCEPT !.nodes = << pt >> \o self.nodes]
        push_back(pt) == [self EXCEPT !.nodes = Append(self.nodes, pt)]
    IN  IF segment.begin_pt = first_elem
        THEN [linked |-> TRUE,
              chain |-> IF segment.end_pt = last_elem THEN closed
                        ELSE push_front(segment.end_pt)]
        ELSE IF segment.end_pt = last_elem
        THEN [linked |-> TRUE,
              chain |-> IF segment.begin_pt = first_elem THEN closed
                        ELSE push_back(segment.begin_pt)]
        ELSE IF segment.end_pt = first_elem
        THEN [linked |-> TRUE,
              chain |-> IF segment.begin_pt = last_elem THEN closed
                        ELSE push_front(segment.begin_pt)]
        ELSE IF segment.begin_pt = last_elem
        THEN [linked |-> TRUE,
              chain |-> IF segment.end_pt = first_elem THEN closed
                        ELSE push_back(segment.end_pt)]
        ELSE [linked |-> FALSE, chain |-> self]

\* PointChain::link_segment: [linked, chain]
link_segment(self, segment) ==
    LET first_elem == Head(self.nodes)
        last_elem == self.nodes[Len(self.nodes)]
        closed == [self EXCEPT !.is_closed = TRUE]
        push_front(pt) == [self EXCEPT !.nodes = << pt >> \o self.nodes]
        push_back(pt) == [self EXCEPT !.nodes = Append(self.nodes, pt)]
    IN  IF segment.begin_pt = first_elem
        THEN [linked |-> TRUE,
              chain |-> IF segment.end_pt = last_elem THEN closed
                        ELSE push_front(segment.end_pt)]
        ELSE IF segment.end_pt = last_elem
        THEN [linked |-> TRUE,
              chain |-> IF segment.begin_pt = first_elem THEN closed
                        ELSE push_back(segment.begin_pt)]
        ELSE IF segment.end_pt = first_elem
        THEN [linked |-> TRUE,
              chain |-> IF segment.begin_pt = last_elem THEN closed
                        ELSE push_front(segment.begin_pt)]
        ELSE IF segment.begin_pt = last_elem
        THEN [linked |-> TRUE,
              chain |-> IF segment.end_pt = first_elem THEN closed
                        ELSE push_back(segment.end_pt)]
        ELSE [linked |-> FALSE, chain |-> self]

\* PointChain::link_point_chain: [linked, chain], chain being self afterwards
link_point_chain(self, chain) ==
    LET chain_first_elem == chain.nodes[1]
        self_last_elem == self.nodes[Len(self.nodes)]
        chain_last_elem == chain.nodes[Len(chain.nodes)]
        self_first_elem == self.nodes[1]
    IN  IF chain_first_elem = self_last_elem
        THEN [linked |-> TRUE,
              chain |-> [self EXCEPT !.nodes = self.nodes \o Tail(chain.nodes)]]
        ELSE IF chain_last_elem = self_first_elem
        THEN [linked |-> TRUE,
              chain |-> [self EXCEPT !.nodes = Reverse(chain.nodes) \o Tail(self.nodes)]]
        ELSE IF chain_first_elem = self_first_elem
        THEN [linked |-> TRUE,
              chain |-> [self EXCEPT !.nodes = chain.nodes \o Tail(self.nodes)]]
        ELSE IF chain_last_elem = self_last_elem
        THEN [linked |-> TRUE,
              chain |-> [self EXCEPT !.nodes = Front(self.nodes) \o Reverse(chain.nodes)]]
        ELSE [linked |-> FALSE, chain |-> self]

-----------------------------------------------------------------------------
(* Connector *)

\* the first open chain the segment links to (0: none), as the scan finds it
interesting_segment(open, segment) ==
    LET hits == { j \in 1..Len(open) : link_segment(open[j], segment).linked }
    IN  IF hits = {} THEN 0 ELSE SeqMin(hits)

\* the loop over to_append_chains: chains are welded onto last_chain until one
\* does not link; that one is exchanged with the last and marked for deletion
RECURSIVE weld(_, _, _)
weld(last_chain, to_append_chains, i) ==
    IF i > Len(to_append_chains)
    THEN [last_chain |-> last_chain, to_append_chains |-> to_append_chains,
          delete_last_element |-> FALSE]
    ELSE LET r == link_point_chain(last_chain, to_append_chains[i])
         IN  IF ~r.linked
             THEN [last_chain |-> last_chain,
                   to_append_chains |-> Swap(to_append_chains, i, Len(to_append_chains)),
                   delete_last_element |-> TRUE]
             ELSE weld(r.chain, to_append_chains, i + 1)

Outcome(open, closed, panicked, oob) ==
    [open |-> open, closed |-> closed, panic |-> panicked, oob |-> oob]

\* Connector::add_segment: the set of its outcomes.  When the segment links to
\* the first open chain without closing it, old_chains is empty and
\* old_chains.len() - 1 underflows: a build with overflow checks panics, a build
\* without reads a chain before the vector's storage, whose link_point_chain
\* answers are then arbitrary (the chains of the vector are exchanged and
\* deleted as these answers say).
add_segment(open, closed, segment) ==
    LET j == interesting_segment(open, segment) IN
    IF j = 0
    THEN { Outcome(Append(open, PointChain_init(segment)), closed, FALSE, FALSE) }
    ELSE
      LET linked == [open EXCEPT ![j] = link_segment(open[j], segment).chain] IN
      IF linked[j].is_closed
      THEN { Outcome(SubSeq(linked, 1, j - 1) \o SubSeq(linked, j + 1, Len(linked)),
                     Append(closed, linked[j]), FALSE, FALSE) }
      ELSE
        LET old_chains == SubSeq(linked, 1, j - 1)
            to_append_chains == SubSeq(linked, j, Len(linked))
            to_append_len == Len(to_append_chains)
        IN  IF j = 1
            THEN { Outcome(linked, closed, TRUE, FALSE) }
                 \cup { Outcome(linked, closed, FALSE, TRUE) }
                 \cup { Outcome(Front(Swap(linked, i, to_append_len)), closed, FALSE, TRUE) :
                          i \in 1..to_append_len }
            ELSE LET w == weld(old_chains[j - 1], to_append_chains, 1)
                     all == SubSeq(old_chains, 1, j - 2) \o << w.last_chain >>
                              \o w.to_append_chains
                 IN  { Outcome(IF w.delete_last_element THEN Front(all) ELSE all,
                               closed, FALSE, FALSE) }

\* Connector::to_polygons
to_polygons(open, closed) ==
    LET keep(chains) == SelectSeq(chains, LAMBDA c : c.nodes # << >>)
        polygon(c) == [nodes |-> c.nodes, is_closed |-> c.is_closed,
                       is_hole |-> FALSE, winding |-> "Clockwise"]
        all == keep(open) \o keep(closed)
    IN  IF all = << >>
        THEN None
        ELSE [kind |-> "Some", polygons |-> [k \in 1..Len(all) |-> polygon(all[k])]]

-----------------------------------------------------------------------------
(* Polygon::calculate: the trivial results *)

Some(polygons) == [kind |-> "Some", polygons |-> polygons]
Panic == [kind |-> "Panic"]
NotCalled == [kind |-> "NotCalled"]
NonTrivial == [kind |-> "NonTrivial"]

empty_operand_result_always_self(self, other, op) ==
    CASE op = "Difference" -> Some(<< self >>)
      [] op = "Intersection" -> None
      [] OTHER -> Some(<< self >>)

empty_operand_result_nonempty_operand(self, other, op) ==
    CASE op = "Intersection" -> None
      [] OTHER -> IF self.nodes = << >> THEN Some(<< other >>) ELSE Some(<< self >>)

\* one of the operands has no nodes
empty_operand_result(self, other, op) ==
    CASE op = "Difference" -> Some(<< self >>)
      [] op = "Intersection" -> None
      [] OTHER -> IF self.nodes = << >> THEN Some(<< other >>) ELSE Some(<< self >>)

\* the bounding boxes do not overlap
no_overlap_result(self, other, op) ==
    CASE op = "Difference" -> Some(<< self >>)
      [] op = "Intersection" -> None
      [] OTHER -> Some(<< self, other >>)

\* the result returned before any sweep event is created, or NonTrivial
trivial_result(self, other, op) ==
    IF Len(self.nodes) * Len(other.nodes) = 0
    THEN empty_operand_result(self, other, op)
    ELSE IF Len(self.nodes) < 3 \/ Len(other.nodes) < 3
    THEN None
    ELSE IF ~overlaps(calculate_bounding_box(self.nodes),
                      calculate_bounding_box(other.nodes))
    THEN no_overlap_result(self, other, op)
    ELSE NonTrivial

-----------------------------------------------------------------------------
(* Polygon::calculate: the sweep *)

self_bbox == calculate_bounding_box(subject.nodes)
other_bbox == calculate_bounding_box(clipping.nodes)
minimum_x_bbox_pt ==
    IF self_bbox.right < other_bbox.right THEN self_bbox.right ELSE other_bbox.right

\* the segment a right event hands to the connector
event_segment(ev, e) == Segment(ev[e].p, ev[ev[e].other].p)

emits_difference_ignores_source(op, ev, e) ==
    LET other == ev[ev[e].other] IN
    CASE ev[e].edge_type = "Normal" ->
           ( CASE op = "Intersection" -> other.is_inside
               [] op = "Union" -> ~other.is_inside
               [] op = "Difference" -> ~other.is_inside
               [] OTHER -> TRUE )
      [] ev[e].edge_type = "SameTransition" -> op \in {"Intersection", "Union"}
      [] ev[e].edge_type = "DifferentTransition" -> op = "Difference"
      [] OTHER -> FALSE

\* does the right event e add its segment to the connector
emits(op, ev, e) ==
    LET other == ev[ev[e].other] IN
    CASE ev[e].edge_type = "Normal" ->
           ( CASE op = "Intersection" -> other.is_inside
               [] op = "Union" -> ~other.is_inside
               [] op = "Difference" ->
                    \/ (ev[e].polygon_type = "Subject" /\ ~other.is_inside)
                    \/ (ev[e].polygon_type = "Clipping" /\ other.is_inside)
               [] OTHER -> TRUE )
      [] ev[e].edge_type = "SameTransition" -> op \in {"Intersection", "Union"}
      [] ev[e].edge_type = "DifferentTransition" -> op = "Difference"
      [] OTHER -> FALSE

\* optimization 1 for Intersection and Difference: leave the loop
breaks(op, ev, e) ==
    \/ (op = "Intersection" /\ ev[e].p.x > minimum_x_bbox_pt)
    \/ (op = "Difference" /\ ev[e].p.x > self_bbox.right)

\* optimization 1 for Union: add all the non-processed segments
flushes(op, ev, e) ==
    op = "Union" /\ ev[e].p.x > minimum_x_bbox_pt /\ ~ev[e].left

\* connector.add_segment(segment), the loop going on at next_pc
AddSegment(segment, next_pc) ==
    \E o \in add_segment(open_polygons, closed_polygons, segment) :
        /\ open_polygons' = o.open
        /\ closed_polygons' = o.closed
        /\ out_of_bounds' = (out_of_bounds \/ o.oob)
        /\ pc' = IF o.panic THEN "panic" ELSE next_pc
        /\ result' = IF o.panic THEN Panic ELSE result

\* the head of calculate, up to the first pop
Begin ==
    /\ pc = "call"
    /\ LET trivial == trivial_result(subject, clipping, operation_type) IN
       IF trivial # NonTrivial
       THEN /\ result' = trivial
            /\ pc' = "done"
            /\ UNCHANGED << events, event_queue >>
       ELSE /\ events' = create_sweep_events(subject.nodes, "Subject", 0)
                           \o create_sweep_events(clipping.nodes, "Clipping",
                                                  2 * Len(subject.nodes))
            /\ event_queue' = 1..(2 * Len(subject.nodes) + 2 * Len(clipping.nodes))
            /\ pc' = "loop"
            /\ UNCHANGED result
    /\ UNCHANGED << operation_type, subject, clipping, sweep_line, open_polygons,
                    closed_polygons, out_of_bounds, first_call, segs, li >>

\* one turn of the loop `while let Some(event) = event_queue.pop()`
Pop ==
    /\ pc = "loop"
    /\ \E e \in heap_top(events, event_queue) :
        /\ event_queue' = event_queue \ {e}
        /\ IF breaks(operation_type, events, e)
           THEN /\ pc' = "done"
                /\ result' = to_polygons(open_polygons, closed_polygons)
                /\ UNCHANGED << events, sweep_line, open_polygons, closed_polygons,
                                out_of_bounds >>
           ELSE IF flushes(operation_type, events, e)
           THEN /\ AddSegment(event_segment(events, e), "flush")
                /\ UNCHANGED << events, sweep_line >>
           ELSE IF events[e].left
           THEN LET event_pos_in_sweep_line ==
                        insert_return_index(events, sweep_line, e)
                IN  /\ sweep_line' = InsertAt(sweep_line, event_pos_in_sweep_line, e)
                    /\ events' = [events EXCEPT ![e].position_in_sweep_line =
                                                    event_pos_in_sweep_line]
                    /\ UNCHANGED << pc, result, open_polygons, closed_polygons,
                                    out_of_bounds >>
           ELSE IF emits(operation_type, events, e)
           THEN /\ AddSegment(event_segment(events, e), "loop")
                /\ UNCHANGED << events, sweep_line >>
           ELSE UNCHANGED << pc, result, events, sweep_line, open_polygons,
                             closed_polygons, out_of_bounds >>
    /\ UNCHANGED << operation_type, subject, clipping, first_call, segs, li >>

\* one turn of the inner loop of the Union optimization
FlushPop ==
    /\ pc = "flush"
    /\ \E e \in heap_top(events, event_queue) :
        /\ event_queue' = event_queue \ {e}
        /\ IF ~events[e].left
           THEN AddSegment(event_segment(events, e), "flush")
           ELSE UNCHANGED << pc, result, open_polygons, closed_polygons, out_of_bounds >>
    /\ UNCHANGED << operation_type, subject, clipping, events, sweep_line,
                    first_call, segs, li >>

\* the queue is empty: connector.to_polygons()
Finish ==
    /\ pc \in {"loop", "flush"}
    /\ event_queue = {}
    /\ pc' = "done"
    /\ result' = to_polygons(open_polygons, closed_polygons)
    /\ UNCHANGED << operation_type, subject, clipping, events, event_queue, sweep_line,
                    open_polygons, closed_polygons, out_of_bounds, first_call, segs, li >>

-----------------------------------------------------------------------------
(* The calls *)

Op == {"Intersection", "Union", "Difference", "Xor"}

Shift(nodes, dx, dy) == [k \in 1..Len(nodes) |-> Pt(nodes[k].x + dx, nodes[k].y + dy)]

\* the shapes the operands are taken from
Shapes ==
    { << >>,
      << Pt(0, 0) >>,
      << Pt(0, 0), Pt(1, 1) >>,
      << Pt(5, 5), Pt(10, 10), Pt(10, 5) >>,
      << Pt(0, 0), Pt(1, 0), Pt(1, 1), Pt(0, 1) >>,
      << Pt(0, 0), Pt(2, 0), Pt(1, 0) >> }

Init ==
    /\ operation_type \in Op
    /\ subject \in { Polygon(s) : s \in Shapes }
    /\ clipping \in UNION { { Polygon(Shift(s, dx, dy)) : s \in Shapes, dy \in {0, dx} } :
                              dx \in 0..MaxShift }
    /\ pc = "call"
    /\ result = NotCalled
    /\ events = << >>
    /\ event_queue = {}
    /\ sweep_line = << >>
    /\ open_polygons = << >>
    /\ closed_polygons = << >>
    /\ out_of_bounds = FALSE
    /\ first_call = NotCalled
    /\ segs = << >>
    /\ li = NotCalled

Next == Begin \/ Pop \/ FlushPop \/ Finish

Spec == Init /\ [][Next]_vars

\* the call runs on: calculate is sequential code, each step of which is taken
SpecLive == Init /\ [][Next]_vars /\ WF_vars(Next)

\* the same operation called again with the operands exchanged
CallExchanged ==
    /\ pc \in {"done", "panic"}
    /\ first_call = NotCalled
    /\ first_call' = result
    /\ subject' = clipping
    /\ clipping' = subject
    /\ pc' = "call"
    /\ result' = NotCalled
    /\ events' = << >>
    /\ event_queue' = {}
    /\ sweep_line' = << >>
    /\ open_polygons' = << >>
    /\ closed_polygons' = << >>
    /\ out_of_bounds' = FALSE
    /\ UNCHANGED << operation_type, segs, li >>

NextExchanged == Next \/ CallExchanged

SpecExchanged == Init /\ [][NextExchanged]_vars

\* line_intersect applied to four points of the grid
Grid == { Pt(gx, gy) : gx \in 0..GridMax, gy \in 0..GridMax }

InitGeometry ==
    /\ segs \in [1..4 -> Grid]
    /\ li = NotCalled
    /\ pc = "geometry"
    /\ operation_type = "Xor"
    /\ subject = Polygon(<< >>)
    /\ clipping = Polygon(<< >>)
    /\ result = NotCalled
    /\ events = << >>
    /\ event_queue = {}
    /\ sweep_line = << >>
    /\ open_polygons = << >>
    /\ closed_polygons = << >>
    /\ out_of_bounds = FALSE
    /\ first_call = NotCalled

LineIntersect ==
    /\ pc = "geometry"
    /\ li = NotCalled
    /\ li' = line_intersect(segs[1], segs[2], segs[3], segs[4])
    /\ UNCHANGED << operation_type, subject, clipping, pc, result, events, event_queue,
                    sweep_line, open_polygons, closed_polygons, out_of_bounds,
                    first_call, segs >>

SpecGeometry == InitGeometry /\ [][LineIntersect]_vars

\* the points of the grid strictly inside the edge of event e
InteriorPoints(ev, e) ==
    LET a == ev[e].p
        b == ev[ev[e].other].p
    IN  { q \in { Pt(qx, qy) : qx \in 0..(GridMax + 1), qy \in 0..(GridMax + 1) } :
            /\ calculate_signed_area3(a, b, q) = 0
            /\ q # a /\ q # b
            /\ (a.x <= q.x /\ q.x <= b.x) \/ (b.x <= q.x /\ q.x <= a.x)
            /\ (a.y <= q.y /\ q.y <= b.y) \/ (b.y <= q.y /\ q.y <= a.y) }

\* divide_segment(event, divide_pt, event_holder, eq) on the left event of an
\* edge, as possible_intersection would call it.  The references into
\* event_holder stay valid while the vector is not reallocated, which bounds
\* the number of calls.
DivideSegment ==
    /\ pc = "loop"
    /\ Len(events) < 2 * Len(subject.nodes) + 2 * Len(clipping.nodes) + 2 * MaxDivides
    /\ \E e \in { l \in DOMAIN events : events[l].left } :
         \E divide_pt \in InteriorPoints(events, e) :
            events' = divide_segment(events, e, divide_pt)
    /\ UNCHANGED << operation_type, subject, clipping, pc, result, event_queue,
                    sweep_line, open_polygons, closed_polygons, out_of_bounds,
                    first_call, segs, li >>

\* the divide points that a rounded intersection can be: any point of the grid
\* other than the two endpoints of the edge of event e
RoundedPoints(ev, e) ==
    { q \in { Pt(qx, qy) : qx \in 0..(GridMax + 1), qy \in 0..(GridMax + 1) } :
        q # ev[e].p /\ q # ev[ev[e].other].p }

\* divide_segment(event, divide_pt, event_holder, eq) on the left event of an
\* edge with a divide point that rounding has moved off the edge
DivideRounded ==
    /\ pc = "loop"
    /\ Len(events) = 2 * Len(subject.nodes) + 2 * Len(clipping.nodes)
    /\ \E e \in { l \in DOMAIN events : events[l].left } :
         \E divide_pt \in RoundedPoints(events, e) :
            events' = divide_segment(events, e, divide_pt)
    /\ pc' = "divided"
    /\ UNCHANGED << operation_type, subject, clipping, result, event_queue,
                    sweep_line, open_polygons, closed_polygons, out_of_bounds,
                    first_call, segs, li >>

\* the sweeps of a square with a triangle, with subdivision
InitDivide ==
    /\ operation_type \in Op
    /\ subject = Polygon(<< Pt(0, 0), Pt(2, 0), Pt(2, 2), Pt(0, 2) >>)
    /\ clipping \in { Polygon(Shift(<< Pt(0, 0), Pt(2, 2), Pt(2, 0) >>, dx, 0)) :
                        dx \in 0..1 }
    /\ pc = "call"
    /\ result = NotCalled
    /\ events = << >>
    /\ event_queue = {}
    /\ sweep_line = << >>
    /\ open_polygons = << >>
    /\ closed_polygons = << >>
    /\ out_of_bounds = FALSE
    /\ first_call = NotCalled
    /\ segs = << >>
    /\ li = NotCalled

NextDivide == Next \/ DivideSegment

SpecDivide == InitDivide /\ [][NextDivide]_vars

NextRounded == Begin \/ DivideRounded

SpecRounded == InitDivide /\ [][NextRounded]_vars

\* a left event of two triangles has been inserted into the sweep line, alone
\* or right after a predecessor whose flags are drawn from all their values
InitFlags ==
    /\ operation_type \in Op
    /\ subject = Polygon(<< Pt(5, 5), Pt(10, 10), Pt(10, 5) >>)
    /\ clipping \in { Polygon(Shift(subject.nodes, dx, 0)) : dx \in {0, 2} }
    /\ LET created == create_sweep_events(subject.nodes, "Subject", 0)
                        \o create_sweep_events(clipping.nodes, "Clipping", 6)
           lefts == { l \in 1..12 : created[l].left }
       IN  \E cur \in lefts :
             \/ /\ events = created
                /\ sweep_line = << cur >>
             \/ \E prev \in lefts \ {cur}, is_inside \in BOOLEAN, in_out \in BOOLEAN :
                   /\ events = [created EXCEPT ![prev].is_inside = is_inside,
                                               ![prev].in_out = in_out]
                   /\ sweep_line = << prev, cur >>
    /\ pc = "classify"
    /\ result = NotCalled
    /\ event_queue = {}
    /\ open_polygons = << >>
    /\ closed_polygons = << >>
    /\ out_of_bounds = FALSE
    /\ first_call = NotCalled
    /\ segs = << >>
    /\ li = NotCalled

\* event.set_inside_flag_of_left_endpoint(previous) on the last event of the
\* sweep line, previous being the event before it
SetInsideFlag ==
    /\ pc = "classify"
    /\ events' = set_inside_flag_of_left_endpoint(
                     events, sweep_line[Len(sweep_line)],
                     IF Len(sweep_line) = 1 THEN 0 ELSE sweep_line[Len(sweep_line) - 1])
    /\ pc' = "classified"
    /\ UNCHANGED << operation_type, subject, clipping, result, event_queue, sweep_line,
                    open_polygons, closed_polygons, out_of_bounds, first_call, segs, li >>

SpecFlags == InitFlags /\ [][SetInsideFlag]_vars

\* two edges of a square and of a shifted square stand next to each other in
\* the sweep status
InitIntersect ==
    /\ operation_type \in Op
    /\ subject = Polygon(<< Pt(0, 0), Pt(2, 0), Pt(2, 2), Pt(0, 2) >>)
    /\ clipping \in { Polygon(Shift(subject.nodes, 1, dy)) : dy \in 0..1 }
    /\ events = create_sweep_events(subject.nodes, "Subject", 0)
                  \o create_sweep_events(clipping.nodes, "Clipping", 8)
    /\ sweep_line \in { << e1, e2 >> : e1, e2 \in 1..16 }
    /\ events[sweep_line[1]].left /\ events[sweep_line[2]].left
    /\ sweep_line[1] # sweep_line[2]
    /\ pc = "intersect"
    /\ result = NotCalled
    /\ event_queue = {}
    /\ open_polygons = << >>
    /\ closed_polygons = << >>
    /\ out_of_bounds = FALSE
    /\ first_call = NotCalled
    /\ segs = << >>
    /\ li = NotCalled

\* possible_intersection(e1, e2) on the two edges
PossibleIntersection ==
    /\ pc = "intersect"
    /\ LET e1 == sweep_line[1]
           e2 == sweep_line[2]
       IN  /\ segs' = << events[e1].p, events[events[e1].other].p,
                         events[e2].p, events[events[e2].other].p >>
           /\ li' = line_intersect(events[e1].p, events[events[e1].other].p,
                                   events[e2].p, events[events[e2].other].p)
           /\ events' = possible_intersection(events, e1, e2)
    /\ pc' = "intersected"
    /\ UNCHANGED << operation_type, subject, clipping, result, event_queue, sweep_line,
                    open_polygons, closed_polygons, out_of_bounds, first_call >>

SpecIntersect == InitIntersect /\ [][PossibleIntersection]_vars

\* the points of the segments handed to a Connector driven on its own
ConnectorPoints == { Pt(0, 0), Pt(1, 0), Pt(1, 1), Pt(0, 1), Pt(2, 0) }

RECURSIVE TotalNodes(_)
TotalNodes(chains) ==
    IF chains = << >> THEN 0 ELSE Len(Head(chains).nodes) + TotalNodes(Tail(chains))

\* Connector::new()
InitConnector ==
    /\ open_polygons = << >>
    /\ closed_polygons = << >>
    /\ out_of_bounds = FALSE
    /\ pc = "connector"
    /\ result = NotCalled
    /\ operation_type = "Xor"
    /\ subject = Polygon(<< >>)
    /\ clipping = Polygon(<< >>)
    /\ events = << >>
    /\ event_queue = {}
    /\ sweep_line = << >>
    /\ first_call = NotCalled
    /\ segs = << >>
    /\ li = NotCalled

\* connector.add_segment(Segment::new(begin_pt, end_pt))
ConnectorAddSegment ==
    /\ pc = "connector"
    /\ TotalNodes(open_polygons) + TotalNodes(closed_polygons) < MaxNodes
    /\ \E begin_pt, end_pt \in ConnectorPoints :
         /\ begin_pt # end_pt
         /\ AddSegment(Segment(begin_pt, end_pt), "connector")
    /\ UNCHANGED << operation_type, subject, clipping, events, event_queue, sweep_line,
                    first_call, segs, li >>

\* connector.to_polygons()
ConnectorToPolygons ==
    /\ pc = "connector"
    /\ pc' = "done"
    /\ result' = to_polygons(open_polygons, closed_polygons)
    /\ UNCHANGED << operation_type, subject, clipping, events, event_queue, sweep_line,
                    open_polygons, closed_polygons, out_of_bounds, first_call, segs, li >>

NextConnector == ConnectorAddSegment \/ ConnectorToPolygons

SpecConnector == InitConnector /\ [][NextConnector]_vars

\* the chains of 2..MaxChainLen different points
Chains ==
    { [nodes |-> ns, is_closed |-> FALSE] :
        ns \in { q \in UNION { [1..n -> ConnectorPoints] : n \in 2..MaxChainLen } :
                    \A i, j \in 1..Len(q) : i # j => q[i] # q[j] } }

\* two open chains, the second about to be welded onto the first
InitChains ==
    /\ \E self, chain \in Chains : open_polygons = << self, chain >>
    /\ closed_polygons = << >>
    /\ out_of_bounds = FALSE
    /\ pc = "link"
    /\ result = NotCalled
    /\ operation_type = "Xor"
    /\ subject = Polygon(<< >>)
    /\ clipping = Polygon(<< >>)
    /\ events = << >>
    /\ event_queue = {}
    /\ sweep_line = << >>
    /\ first_call = NotCalled
    /\ segs = << >>
    /\ li = NotCalled

\* self.link_point_chain(chain): chain is consumed, result holds the answer
LinkPointChain ==
    /\ pc = "link"
    /\ LET r == link_point_chain(open_polygons[1], open_polygons[2])
       IN  /\ open_polygons' = << r.chain >>
           /\ result' = [kind |-> "Linked", linked |-> r.linked]
    /\ pc' = "linked"
    /\ UNCHANGED << operation_type, subject, clipping, events, event_queue, sweep_line,
                    closed_polygons, out_of_bounds, first_call, segs, li >>

SpecChains == InitChains /\ [][LinkPointChain]_vars

EdgeType == {"Normal", "NonContributing", "SameTransition", "DifferentTransition"}

\* one turn of the loop applied to a single queued event of two triangles, its
\* edge_type and its twin's is_inside being drawn from all their values (the
\* values the classification of the left events would have left there)
InitEmission ==
    /\ operation_type \in Op
    /\ subject = Polygon(<< Pt(5, 5), Pt(10, 10), Pt(10, 5) >>)
    /\ clipping \in { Polygon(Shift(subject.nodes, dx, 0)) : dx \in {0, 2} }
    /\ \E k \in 1..12, edge_type \in EdgeType, is_inside \in BOOLEAN :
         LET created == create_sweep_events(subject.nodes, "Subject", 0)
                          \o create_sweep_events(clipping.nodes, "Clipping", 6)
         IN  /\ events = [created EXCEPT ![k].edge_type = edge_type,
                                         ![created[k].other].is_inside = is_inside]
             /\ event_queue = {k}
    /\ pc = "loop"
    /\ result = NotCalled
    /\ sweep_line = << >>
    /\ open_polygons = << >>
    /\ closed_polygons = << >>
    /\ out_of_bounds = FALSE
    /\ first_call = NotCalled
    /\ segs = << >>
    /\ li = NotCalled

NextEmission == Pop \/ Finish

SpecEmission == InitEmission /\ [][NextEmission]_vars

-----------------------------------------------------------------------------
(* Properties *)

Returned == pc = "done"
SweepRun == events # << >>

Xs(polygon) == { polygon.nodes[k].x : k \in 1..Len(polygon.nodes) }
Ys(polygon) == { polygon.nodes[k].y : k \in 1..Len(polygon.nodes) }

\* one bounding box is strictly outside the other on some axis
StrictlyApart(a, b) ==
    \/ \A u \in Xs(a), v \in Xs(b) : u < v
    \/ \A u \in Xs(a), v \in Xs(b) : v < u
    \/ \A u \in Ys(a), v \in Ys(b) : u < v
    \/ \A u \in Ys(a), v \in Ys(b) : v < u

BothPolygons == Len(subject.nodes) >= 3 /\ Len(clipping.nodes) >= 3

\* C1: with both polygons of at least 3 vertices and the bounding boxes
\* strictly apart on some axis, union returns [A, B], xor both inputs,
\* intersect nothing and difference [A], and no sweep event is created; boxes
\* that touch or overlap do not take this shortcut.
C1_DisjointBoxes ==
    (Returned /\ BothPolygons) =>
        IF StrictlyApart(subject, clipping)
        THEN /\ ~SweepRun
             /\ operation_type = "Union" => result = Some(<< subject, clipping >>)
             /\ operation_type = "Xor" =>
                    /\ result.kind = "Some"
                    /\ Len(result.polygons) = 2
                    /\ { result.polygons[1], result.polygons[2] } = { subject, clipping }
             /\ operation_type = "Intersection" => result = None
             /\ operation_type = "Difference" => result = Some(<< subject >>)
        ELSE SweepRun

C1_Witness ==
    /\ Returned /\ BothPolygons /\ StrictlyApart(subject, clipping)
    /\ operation_type = "Union"
    /\ result = Some(<< subject, clipping >>)

ExactlyOneEmpty == (subject.nodes = << >>) # (clipping.nodes = << >>)
NonEmptyOperand == IF subject.nodes = << >> THEN clipping ELSE subject

\* C2: union and xor with exactly one operand of zero vertices return the
\* other operand alone; intersect with an operand of zero vertices returns
\* nothing; no sweep event is created.
C2_EmptyOperand ==
    Returned =>
        /\ (operation_type \in {"Union", "Xor"} /\ ExactlyOneEmpty) =>
               (result = Some(<< NonEmptyOperand >>) /\ ~SweepRun)
        /\ (operation_type = "Intersection"
              /\ (subject.nodes = << >> \/ clipping.nodes = << >>)) =>
               (result = None /\ ~SweepRun)

C2_Witness ==
    /\ Returned /\ operation_type = "Union"
    /\ subject.nodes = << >> /\ Len(clipping.nodes) >= 3
    /\ result = Some(<< clipping >>)

\* C3 as claimed: difference(A, {}) returns A and difference({}, B) returns B.
C3_Original ==
    (Returned /\ operation_type = "Difference" /\ ExactlyOneEmpty) =>
        result = Some(<< NonEmptyOperand >>)

\* C3: difference with an operand of zero vertices returns the subject
\* unchanged: difference(A, {}) is [A] and difference({}, B) is [{}], the
\* empty subject; no sweep event is created.
C3_DifferenceEmpty ==
    (Returned /\ operation_type = "Difference"
       /\ (subject.nodes = << >> \/ clipping.nodes = << >>)) =>
        (result = Some(<< subject >>) /\ ~SweepRun)

C3_Witness ==
    /\ Returned /\ operation_type = "Difference"
    /\ subject.nodes = << >> /\ clipping.nodes # << >>
    /\ result = Some(<< subject >>)

\* C4 as claimed: with both operands non-empty and one of fewer than 3
\* vertices, difference returns the subject, intersect nothing, union and xor
\* both inputs.
C4_FewerThanThree ==
    (Returned /\ subject.nodes # << >> /\ clipping.nodes # << >> /\ ~BothPolygons) =>
        /\ ~SweepRun
        /\ operation_type = "Difference" => result = Some(<< subject >>)
        /\ operation_type = "Intersection" => result = None
        /\ operation_type \in {"Union", "Xor"} => result = Some(<< subject, clipping >>)

-----------------------------------------------------------------------------
(* Properties of line_intersect *)

Cross(a, b, c, d) == (b.x - a.x) * (d.y - c.y) - (b.y - a.y) * (d.x - c.x)
NonParallel == Cross(segs[1], segs[2], segs[3], segs[4]) # 0

\* c and d are not strictly on the same side of the line through a and b
Straddles(a, b, c, d) ==
    calculate_signed_area3(a, b, c) * calculate_signed_area3(a, b, d) <= 0

\* the segments have a common point (both parameters lie in [0, 1])
SegmentsMeet ==
    /\ Straddles(segs[1], segs[2], segs[3], segs[4])
    /\ Straddles(segs[3], segs[4], segs[1], segs[2])

Between(lo, v, hi) == (lo <= v /\ v <= hi) \/ (hi <= v /\ v <= lo)

\* the point (r.xn / r.d, r.yn / r.d) lies on the segment (a, b)
OnSegment(r, a, b) ==
    /\ (b.x - a.x) * (r.yn - a.y * r.d) = (b.y - a.y) * (r.xn - a.x * r.d)
    /\ Between(a.x * r.d, r.xn, b.x * r.d)
    /\ Between(a.y * r.d, r.yn, b.y * r.d)

\* C10: for non-parallel segments line_intersect returns a point exactly when
\* the segments have a common point (touching at an endpoint counts), and
\* that point lies on both segments.
C10_NonParallel ==
    (li # NotCalled /\ NonParallel) =>
        /\ (li.kind = "Some") <=> SegmentsMeet
        /\ li.kind = "Some" =>
              /\ li.second = None
              /\ OnSegment(li, segs[1], segs[2])
              /\ OnSegment(li, segs[3], segs[4])

C10_Witness ==
    /\ li # NotCalled /\ NonParallel /\ li.kind = "Some"
    /\ li.xn % (IF li.d < 0 THEN 0 - li.d ELSE li.d) # 0

-----------------------------------------------------------------------------
(* Properties of the sweep's results *)

Ended == pc \in {"done", "panic"}

ScenarioA_subject == << Pt(5, 5), Pt(10, 10), Pt(10, 5) >>
ScenarioA_clip == << Pt(7, 5), Pt(12, 10), Pt(12, 5) >>

OneClosedPolygon(r) ==
    /\ r.kind = "Some"
    /\ Len(r.polygons) = 1
    /\ r.polygons[1].is_closed
    /\ Len(r.polygons[1].nodes) >= 3

\* C5 as claimed: on the triangles of Scenario A, intersect, difference and
\* union each return exactly one closed polygon.
C5_ScenarioA ==
    (Ended /\ subject.nodes = ScenarioA_subject /\ clipping.nodes = ScenarioA_clip
       /\ operation_type \in {"Intersection", "Difference", "Union"}) =>
        OneClosedPolygon(result)

\* the rotations of a cycle of nodes, in both directions
Rotations(ns) ==
    { [k \in 1..Len(ns) |-> ns[((k + r) % Len(ns)) + 1]] : r \in 0..(Len(ns) - 1) }
Cycle(ns) == Rotations(ns) \cup Rotations(Reverse(ns))

\* the regions a result holds, each as the cycle of its nodes
Regions(r) ==
    IF r.kind = "Some"
    THEN { Cycle(r.polygons[k].nodes) :
             k \in { i \in 1..Len(r.polygons) : r.polygons[i].nodes # << >> } }
    ELSE {}

\* no two edges of the polygon lie on a common line and share more than a point
Key(pt) == pt.x * 1000 + pt.y
Lo(a, b) == IF Key(a) < Key(b) THEN Key(a) ELSE Key(b)
Hi(a, b) == IF Key(a) < Key(b) THEN Key(b) ELSE Key(a)
EdgesOverlap(a, b, c, d) ==
    /\ calculate_signed_area3(a, b, c) = 0
    /\ calculate_signed_area3(a, b, d) = 0
    /\ (IF Lo(a, b) < Lo(c, d) THEN Lo(c, d) ELSE Lo(a, b))
         < (IF Hi(a, b) < Hi(c, d) THEN Hi(a, b) ELSE Hi(c, d))
NextNode(polygon, k) == polygon.nodes[(k % Len(polygon.nodes)) + 1]
SelfOverlapping(polygon) ==
    \E i, j \in 1..Len(polygon.nodes) :
        /\ i # j
        /\ EdgesOverlap(polygon.nodes[i], NextNode(polygon, i),
                        polygon.nodes[j], NextNode(polygon, j))

\* C6 as claimed: for a simple polygon A of at least 3 vertices, union(A, A)
\* and intersect(A, A) return A as their only polygon, difference(A, A) and
\* xor(A, A) return no region.
C6_Idempotence ==
    (Ended /\ subject = clipping /\ BothPolygons /\ ~SelfOverlapping(subject)) =>
        /\ pc = "done"
        /\ operation_type \in {"Union", "Intersection"} =>
               (OneClosedPolygon(result) /\ Regions(result) = { Cycle(subject.nodes) })
        /\ operation_type \in {"Difference", "Xor"} => Regions(result) = {}

\* C7 as claimed, on the triangles of Scenario A: once union, intersect or
\* xor has been called with the operands both ways round, both calls have
\* returned and hold the same regions.
C7_Commutativity ==
    (Ended /\ first_call # NotCalled /\ operation_type # "Difference"
       /\ { subject.nodes, clipping.nodes } = { ScenarioA_subject, ScenarioA_clip }) =>
        /\ first_call.kind # "Panic"
        /\ result.kind # "Panic"
        /\ Regions(first_call) = Regions(result)

\* C8 as claimed: an operation whose sweep has processed every event of a
\* polygon with two collinearly overlapping edges fails with
\* SelfOverlappingPolygon and returns no polygon.
C8_SelfOverlap ==
    (Returned /\ SweepRun /\ event_queue = {}
       /\ (SelfOverlapping(subject) \/ SelfOverlapping(clipping))) =>
        result.kind = "SelfOverlappingPolygon"

\* C9 as claimed: every polygon a sweep returns is closed; an open chain left
\* in the connector makes the operation fail instead (stated for operands
\* without overlapping edges).
C9_NoOpenPolygon ==
    (Returned /\ SweepRun /\ ~SelfOverlapping(subject) /\ ~SelfOverlapping(clipping)) =>
        /\ result.kind = "Some" =>
               \A k \in 1..Len(result.polygons) : result.polygons[k].is_closed
        /\ open_polygons # << >> => result.kind = "MalformedResult"

-----------------------------------------------------------------------------
(* Properties of line_intersect on parallel segments *)

NonDegenerate == segs[1] # segs[2] /\ segs[3] # segs[4]

\* the four points lie on one line
Collinear ==
    /\ calculate_signed_area3(segs[1], segs[2], segs[3]) = 0
    /\ calculate_signed_area3(segs[1], segs[2], segs[4]) = 0

\* C11 as claimed: for two parallel segments that do not lie on a common
\* line, line_intersect returns none.
C11_ParallelApart ==
    (li # NotCalled /\ NonDegenerate /\ ~NonParallel /\ ~Collinear) => li = None

\* C12 as claimed: for two segments on a common line line_intersect returns
\* an outcome that is not none, and for segments that overlap the outcome
\* carries a second point, which tells it from a single crossing point.
C12_CommonLine ==
    (li # NotCalled /\ NonDegenerate /\ Collinear) =>
        /\ li.kind = "Some"
        /\ EdgesOverlap(segs[1], segs[2], segs[3], segs[4]) => li.second # None

-----------------------------------------------------------------------------
(* Properties of the event comparator and of the event queue *)

\* no operand has two edges that overlap on a common line
SimpleOperands == ~SelfOverlapping(subject) /\ ~SelfOverlapping(clipping)

\* event i precedes event j: j is processed after i
precedes(ev, i, j) == compare(ev, j, i)

SameTie(ev, i, j) == i # j /\ ev[i].p = ev[j].p /\ ev[i].left = ev[j].left

\* C13 as claimed: on the events of a sweep the comparator is a strict total
\* order: no event precedes itself, of two distinct events exactly one
\* precedes the other, and precedence is transitive.
C13_StrictTotalOrder ==
    (SweepRun /\ SimpleOperands) =>
        \A a, b \in DOMAIN events :
            /\ ~precedes(events, a, a)
            /\ a # b => (precedes(events, a, b) # precedes(events, b, a))
            /\ \A c \in DOMAIN events :
                   (precedes(events, a, b) /\ precedes(events, b, c)) =>
                       precedes(events, a, c)

\* event f comes before event e in sweep order: smaller x, then smaller y,
\* then the right event before the left one at the same point
SweepBefore(ev, f, e) ==
    \/ ev[f].p.x < ev[e].p.x
    \/ (ev[f].p.x = ev[e].p.x /\ ev[f].p.y < ev[e].p.y)
    \/ (ev[f].p = ev[e].p /\ ~ev[f].left /\ ev[e].left)

\* C14 as claimed: every pop returns a minimum of the queued events in sweep
\* order: no event left in the queue comes before the popped one.
C14_AscendingPops ==
    [][ SimpleOperands =>
            \A e \in event_queue \ event_queue' :
                \A f \in event_queue' : ~SweepBefore(events, f, e) ]_vars

\* C15 as claimed: of two events with the same point and the same left/right
\* role, a precedes b exactly when a's edge lies below the twin point of b.
C15_TieByOtherEdge ==
    (SweepRun /\ SimpleOperands) =>
        \A a, b \in DOMAIN events :
            SameTie(events, a, b) =>
                (precedes(events, a, b) <=> below(events, a, events[events[b].other].p))

-----------------------------------------------------------------------------
(* Properties of the right-event step *)

\* the emission table, keyed by edge_type
EmissionTable(op, edge_type, from_subject, twin_is_inside) ==
    CASE edge_type = "Normal" ->
           ( CASE op = "Intersection" -> twin_is_inside
               [] op = "Union" -> ~twin_is_inside
               [] op = "Difference" ->
                    (from_subject /\ ~twin_is_inside) \/ (~from_subject /\ twin_is_inside)
               [] op = "Xor" -> TRUE )
      [] edge_type = "SameTransition" -> op \in {"Intersection", "Union"}
      [] edge_type = "DifferentTransition" -> op = "Difference"
      [] edge_type = "NonContributing" -> FALSE

\* the right event e is handled by the right-event step, not by optimization 1
RightEventStep(e) ==
    /\ pc = "loop"
    /\ ~events[e].left
    /\ ~breaks(operation_type, events, e)
    /\ ~flushes(operation_type, events, e)

\* C16: when a right event is processed by the right-event step (early
\* termination does not intercept it), the connector, empty before, receives
\* the one segment (event.point, twin.point) exactly when the emission table
\* says so for the event's edge_type, the operation, the event's source and
\* the twin's is_inside; otherwise it receives nothing.
C16_EmissionTable ==
    [][ \A e \in event_queue \ event_queue' :
            (RightEventStep(e) /\ open_polygons = << >> /\ closed_polygons = << >>) =>
                /\ closed_polygons' = << >>
                /\ open_polygons' =
                     IF EmissionTable(operation_type, events[e].edge_type,
                                      events[e].polygon_type = "Subject",
                                      events[events[e].other].is_inside)
                     THEN << [nodes |-> << events[e].p, events[events[e].other].p >>,
                              is_closed |-> FALSE] >>
                     ELSE << >> ]_vars

\* a Difference has emitted the segment of a clipping edge whose twin is inside
C16_Witness ==
    /\ pc = "loop" /\ event_queue = {} /\ operation_type = "Difference"
    /\ Len(open_polygons) = 1
    /\ \E e \in DOMAIN events :
         /\ ~events[e].left
         /\ events[e].polygon_type = "Clipping"
         /\ events[events[e].other].is_inside
         /\ events[e].edge_type = "Normal"
         /\ open_polygons[1].nodes = << events[e].p, events[events[e].other].p >>

-----------------------------------------------------------------------------
(* Properties of the sweep events *)

LexSmaller(v, w) == v.x < w.x \/ (v.x = w.x /\ v.y < w.y)

\* the events base + 2k - 1 and base + 2k are the twinned pair of the edge
\* (v_k, v_k+1 mod n) of the polygon
PairOfEdge(ev, nodes, base, k, tag) ==
    LET a == base + 2 * k - 1
        b == base + 2 * k
        v == nodes[k]
        w == nodes[(k % Len(nodes)) + 1]
    IN  /\ ev[a].p = v /\ ev[b].p = w
        /\ ev[a].other = b /\ ev[b].other = a
        /\ ev[a].polygon_type = tag /\ ev[b].polygon_type = tag
        /\ ev[a].left # ev[b].left
        /\ ev[a].left <=> LexSmaller(v, w)
        /\ ev[b].left <=> LexSmaller(w, v)

\* C17: after create_sweep_events a polygon of n vertices has exactly 2n
\* events, one twinned pair per edge (v_i, v_i+1 mod n); every event is the
\* twin of its twin, twins carry the same source tag, and exactly one of a
\* pair is a left event: the endpoint that is smaller in (x, y), the lower
\* one on a vertical edge.
C17_TwinnedPairs ==
    SweepRun =>
        /\ Len(events) = 2 * Len(subject.nodes) + 2 * Len(clipping.nodes)
        /\ \A k \in 1..Len(subject.nodes) :
               PairOfEdge(events, subject.nodes, 0, k, "Subject")
        /\ \A k \in 1..Len(clipping.nodes) :
               PairOfEdge(events, clipping.nodes, 2 * Len(subject.nodes), k, "Clipping")
        /\ \A e \in DOMAIN events : events[events[e].other].other = e

\* the events exist and the left event of a vertical edge is its lower endpoint
C17_Witness ==
    /\ SweepRun
    /\ \E e \in DOMAIN events :
         /\ events[e].left
         /\ events[e].p.x = events[events[e].other].p.x
         /\ events[e].p.y < events[events[e].other].p.y

-----------------------------------------------------------------------------
(* Properties of divide_segment *)

Subdivided == SweepRun /\ Len(events) > 2 * Len(subject.nodes) + 2 * Len(clipping.nodes)

\* C18 as claimed: in every state, also after divide_segment, every event is
\* the twin of its twin, twins carry the same source tag and exactly one of
\* each pair is a left event.
C18_TwinInvariant ==
    SweepRun =>
        \A e \in DOMAIN events :
            /\ events[events[e].other].other = e
            /\ events[events[e].other].polygon_type = events[e].polygon_type
            /\ events[events[e].other].left # events[e].left

\* C19 as claimed: divide_segment pushes the two events it creates onto the
\* event queue.
C19_PushesBoth ==
    [][ \A e \in DOMAIN events' :
            (SweepRun /\ e \notin DOMAIN events) => e \in event_queue' ]_vars

-----------------------------------------------------------------------------
(* Properties of the classification of a left event *)

\* C20 as claimed: the flags of a left event are set from its predecessor in
\* the sweep status: both false with no predecessor; copied from a Normal
\* predecessor of the same source polygon; with a Normal predecessor of the
\* other polygon is_inside is the predecessor's in_out and in_out is the
\* predecessor's is_inside.
C20_FlagsFromPredecessor ==
    pc = "classified" =>
        LET event == events[sweep_line[Len(sweep_line)]] IN
        IF Len(sweep_line) = 1
        THEN ~event.is_inside /\ ~event.in_out
        ELSE LET predecessor == events[sweep_line[Len(sweep_line) - 1]] IN
             IF predecessor.polygon_type = event.polygon_type
             THEN /\ event.is_inside = predecessor.is_inside
                  /\ event.in_out = predecessor.in_out
             ELSE /\ event.is_inside = predecessor.in_out
                  /\ event.in_out = predecessor.is_inside

-----------------------------------------------------------------------------
(* Properties of the sweep status *)

InSweepLine(e) == \E k \in 1..Len(sweep_line) : sweep_line[k] = e

\* event e has been popped and handled by the loop
Processed(e) == e \notin event_queue

\* C21 as claimed: while the loop runs the sweep status holds exactly the
\* open edges (left event processed, twin right event not yet), and it is
\* empty once the queue is exhausted.
C21_OpenEdges ==
    (SweepRun /\ SimpleOperands /\ ~out_of_bounds /\ pc = "loop") =>
        /\ \A e \in DOMAIN events :
               InSweepLine(e) <=>
                   (events[e].left /\ Processed(e) /\ ~Processed(events[e].other))
        /\ event_queue = {} => sweep_line = << >>

\* C22 as claimed: the handle recorded at insertion keeps designating its
\* edge: every edge of the sweep status is found at its position_in_sweep_line.
C22_StableHandle ==
    (SweepRun /\ SimpleOperands /\ ~out_of_bounds) =>
        \A k \in 1..Len(sweep_line) :
            events[sweep_line[k]].position_in_sweep_line = k - 1

\* the x of point pt lies within the span of the edge of left event e
InSpan(ev, e, pt) == ev[e].p.x <= pt.x /\ pt.x <= ev[ev[e].other].p.x

\* C23 as claimed: the sweep status is ordered by the below/above test on
\* the edges: of two of its edges, the one that comes first is not above the
\* left endpoint of the other where that endpoint lies within its span, and
\* the one that comes second is not below the left endpoint of the first.
C23_OrderedByHeight ==
    (SweepRun /\ SimpleOperands /\ ~out_of_bounds) =>
        \A i, j \in 1..Len(sweep_line) :
            i < j =>
                LET a == sweep_line[i]
                    b == sweep_line[j]
                IN  /\ InSpan(events, a, events[b].p) =>
                           calculate_signed_area3(events[a].p, events[events[a].other].p,
                                                  events[b].p) >= 0
                    /\ InSpan(events, b, events[a].p) =>
                           calculate_signed_area3(events[b].p, events[events[b].other].p,
                                                  events[a].p) <= 0

\* C24 as claimed: once an insertion has made two edges adjacent in the sweep
\* status, possible_intersection, and with it line_intersect, has been run.
C24_AdjacentPairsChecked ==
    (SweepRun /\ SimpleOperands /\ ~out_of_bounds /\ Len(sweep_line) >= 2) =>
        li # NotCalled

-----------------------------------------------------------------------------
(* Properties of possible_intersection *)

\* the point (r.xn / r.d, r.yn / r.d) is the point pt
PointIs(r, pt) == r.xn = pt.x * r.d /\ r.yn = pt.y * r.d

\* the point r is an endpoint of the edge of event e
IsEndpoint(ev, r, e) == PointIs(r, ev[e].p) \/ PointIs(r, ev[ev[e].other].p)

\* after the step, the edge of event e has been divided at the point r: e has
\* a new twin, which lies at r
DividedAt(ev, r, e) == ev[e].other > 16 /\ PointIs(r, ev[ev[e].other].p)

EdgesCross(ev, e1, e2) ==
    Cross(ev[e1].p, ev[ev[e1].other].p, ev[e2].p, ev[ev[e2].other].p) # 0

\* C25 as claimed: possible_intersection on two segments that are not
\* parallel changes nothing when they do not intersect or intersect at an
\* endpoint of both, and divides each segment of which the intersection
\* point is not an endpoint at that point.
C25_DividesAtCrossing ==
    [][ (pc = "intersect" /\ pc' = "intersected"
           /\ EdgesCross(events, sweep_line[1], sweep_line[2])) =>
            LET e1 == sweep_line[1]
                e2 == sweep_line[2]
            IN  IF li' = None \/ (IsEndpoint(events, li', e1) /\ IsEndpoint(events, li', e2))
                THEN events' = events
                ELSE /\ ~IsEndpoint(events, li', e1) => DividedAt(events', li', e1)
                     /\ ~IsEndpoint(events, li', e2) => DividedAt(events', li', e2) ]_vars

\* C26 as claimed: after possible_intersection on two edges of different
\* polygons that overlap on a common line, an event carries the mark of the
\* overlapping sub-edge: SameTransition when the in_out flags of the two
\* edges agree, DifferentTransition otherwise.
C26_OverlapMarked ==
    [][ (pc = "intersect" /\ pc' = "intersected"
           /\ events[sweep_line[1]].polygon_type # events[sweep_line[2]].polygon_type
           /\ EdgesOverlap(events[sweep_line[1]].p, events[events[sweep_line[1]].other].p,
                           events[sweep_line[2]].p, events[events[sweep_line[2]].other].p)) =>
            \E f \in DOMAIN events' :
                events'[f].edge_type =
                    IF events[sweep_line[1]].in_out = events[sweep_line[2]].in_out
                    THEN "SameTransition" ELSE "DifferentTransition" ]_vars

-----------------------------------------------------------------------------
(* Properties of early termination *)

\* the x beyond which the operation stops
Bound ==
    IF operation_type = "Difference" THEN self_bbox.right ELSE minimum_x_bbox_pt

\* C27 as claimed: when Intersection or Difference has returned, every event
\* whose x does not exceed the bound has been processed.
C27_EarlyStop ==
    (Returned /\ SweepRun /\ SimpleOperands
       /\ operation_type \in {"Intersection", "Difference"}) =>
        \A e \in DOMAIN events : events[e].p.x <= Bound => Processed(e)

\* C28 as claimed: a Union of polygons whose boxes end at different x, which
\* flushes from its first popped right event on, ends with every remaining
\* right event's segment added, the queue empty and the loop left.
C28_UnionFlush ==
    (Ended /\ SweepRun /\ SimpleOperands /\ operation_type = "Union"
       /\ self_bbox.right # other_bbox.right) =>
        (pc = "done" /\ event_queue = {})

\* the segments a sweep that processes the whole queue hands to the connector
FullSweepSegments ==
    { event_segment(events, e) :
        e \in { r \in DOMAIN events : ~events[r].left /\ emits(operation_type, events, r) } }

\* C29 as claimed: when Intersection or Difference stops at its first pop,
\* having handed no segment to the connector, a sweep of the whole queue
\* hands over no segment either.
C29_OnlyOptimisation ==
    (Returned /\ SweepRun /\ SimpleOperands
       /\ operation_type \in {"Intersection", "Difference"}
       /\ Cardinality(event_queue) = Len(events) - 1) =>
        FullSweepSegments = {}

-----------------------------------------------------------------------------
(* Properties of the Connector *)

First(chain) == chain.nodes[1]
Last(chain) == chain.nodes[Len(chain.nodes)]
Ends(chain) == { First(chain), Last(chain) }
SegmentEnds(segment) == { segment.begin_pt, segment.end_pt }

\* the open chains an end of which is an endpoint of the segment
Matching(open, segment) ==
    { j \in 1..Len(open) : Ends(open[j]) \cap SegmentEnds(segment) # {} }

\* the connector is running and not damaged by an out-of-bounds access
ConnectorReady == pc = "connector" /\ ~out_of_bounds

\* C34: add_segment with a segment that matches no end of any open chain
\* appends one new open chain holding the two points (begin, end) and leaves
\* every existing open and closed chain unchanged.
C34_NewChain ==
    ConnectorReady =>
        \A b, e \in ConnectorPoints :
            (b # e /\ Matching(open_polygons, Segment(b, e)) = {}) =>
                add_segment(open_polygons, closed_polygons, Segment(b, e)) =
                    { [open |-> Append(open_polygons,
                                       [nodes |-> << b, e >>, is_closed |-> FALSE]),
                       closed |-> closed_polygons, panic |-> FALSE, oob |-> FALSE] }

\* a second chain has been started next to an existing one
C34_Witness ==
    /\ ConnectorReady
    /\ Len(open_polygons) = 2
    /\ Len(open_polygons[1].nodes) = 2 /\ Len(open_polygons[2].nodes) = 2
    /\ Ends(open_polygons[1]) \cap Ends(open_polygons[2]) = {}

\* the chain extended by the segment at the end that matches
Extended(chain, segment) ==
    { << q >> \o chain.nodes : q \in { r \in SegmentEnds(segment) :
          r # First(chain) /\ First(chain) \in SegmentEnds(segment) } }
    \cup { chain.nodes \o << q >> : q \in { r \in SegmentEnds(segment) :
          r # Last(chain) /\ Last(chain) \in SegmentEnds(segment) } }

\* C31: add_segment with a segment that shares exactly one endpoint with an
\* end of exactly one open chain, and matches no other chain, extends that
\* chain by the other endpoint at the matching end, leaves every other chain
\* and the number of open chains unchanged, and completes without failure
\* whatever the index of the chain, index 0 included.
C31_ExtendsOneChain ==
    ConnectorReady =>
        \A b, e \in ConnectorPoints : \A j \in 1..Len(open_polygons) :
            ( /\ b # e
              /\ Matching(open_polygons, Segment(b, e)) = {j}
              /\ Cardinality(Ends(open_polygons[j]) \cap {b, e}) = 1 ) =>
                \A o \in add_segment(open_polygons, closed_polygons, Segment(b, e)) :
                    /\ ~o.panic /\ ~o.oob
                    /\ o.closed = closed_polygons
                    /\ Len(o.open) = Len(open_polygons)
                    /\ \A k \in 1..Len(open_polygons) : k # j => o.open[k] = open_polygons[k]
                    /\ ~o.open[j].is_closed
                    /\ o.open[j].nodes \in Extended(open_polygons[j], Segment(b, e))

\* C32: add_segment with a segment whose endpoints are the first and the last
\* point of one open chain marks that chain closed without adding a point and
\* moves it to the closed chains; the open chains all have is_closed = false,
\* the closed chains all have is_closed = true, and no add_segment call
\* changes a chain that is already closed.
C32_ClosesChain ==
    /\ \A k \in 1..Len(open_polygons) : ~open_polygons[k].is_closed
    /\ \A k \in 1..Len(closed_polygons) : closed_polygons[k].is_closed
    /\ ConnectorReady =>
        \A b, e \in ConnectorPoints :
            b # e =>
                \A o \in add_segment(open_polygons, closed_polygons, Segment(b, e)) :
                    /\ Len(o.closed) >= Len(closed_polygons)
                    /\ SubSeq(o.closed, 1, Len(closed_polygons)) = closed_polygons
                    /\ \A j \in 1..Len(open_polygons) :
                         ( /\ First(open_polygons[j]) # Last(open_polygons[j])
                           /\ Ends(open_polygons[j]) = {b, e} ) =>
                             /\ ~o.panic /\ ~o.oob
                             /\ o.closed = Append(closed_polygons,
                                    [open_polygons[j] EXCEPT !.is_closed = TRUE])
                             /\ o.open = SubSeq(open_polygons, 1, j - 1)
                                           \o SubSeq(open_polygons, j + 1, Len(open_polygons))

\* a chain has been closed by a segment joining its two ends, and another
\* chain has been started after it
C32_Witness ==
    /\ ConnectorReady
    /\ Len(closed_polygons) = 1
    /\ closed_polygons[1].is_closed
    /\ Len(open_polygons) = 1
    /\ ~open_polygons[1].is_closed

Range(seq) == { seq[k] : k \in 1..Len(seq) }

\* C33: add_segment with a segment that bridges two different open chains
\* welds the second onto the first and removes the second: there is one open
\* chain fewer, the merged chain holds every point of both, and no other
\* chain is changed or removed.
C33_WeldsTwoChains ==
    ConnectorReady =>
        \A b, e \in ConnectorPoints : \A c1, c2 \in 1..Len(open_polygons) :
            ( /\ b # e /\ c1 # c2
              /\ Matching(open_polygons, Segment(b, e)) = {c1, c2}
              /\ Ends(open_polygons[c1]) \cap {b, e} = {b}
              /\ Ends(open_polygons[c2]) \cap {b, e} = {e} ) =>
                \A o \in add_segment(open_polygons, closed_polygons, Segment(b, e)) :
                    /\ ~o.panic /\ ~o.oob
                    /\ o.closed = closed_polygons
                    /\ Len(o.open) = Len(open_polygons) - 1
                    /\ \E m \in 1..Len(o.open) :
                         /\ Len(o.open[m].nodes) = Len(open_polygons[c1].nodes)
                                                     + Len(open_polygons[c2].nodes)
                         /\ Range(o.open[m].nodes) = Range(open_polygons[c1].nodes)
                                                       \cup Range(open_polygons[c2].nodes)
                    /\ \A k \in 1..Len(open_polygons) :
                         k \notin {c1, c2} => \E m \in 1..Len(o.open) : o.open[m] = open_polygons[k]

\* C35: to_polygons returns nothing when no chain remains and otherwise
\* exactly one polygon per closed chain, with the points of the chain in chain
\* order and is_closed = true.
C35_OnePolygonPerClosedChain ==
    (pc = "done" /\ ~out_of_bounds) =>
        IF closed_polygons = << >>
        THEN result = None
        ELSE /\ result.kind = "Some"
             /\ Len(result.polygons) = Len(closed_polygons)
             /\ \A k \in 1..Len(closed_polygons) :
                  /\ result.polygons[k].nodes = closed_polygons[k].nodes
                  /\ result.polygons[k].is_closed

\* the number of times the segment between a and b, in either direction, is
\* held by the chains: as two consecutive points, or as the last and the
\* first point of a closed chain
Held(chains, a, b) ==
    Cardinality({ ck \in UNION { {c} \X (1..Len(chains[c].nodes)) : c \in 1..Len(chains) } :
        LET nodes == chains[ck[1]].nodes
            k == ck[2]
        IN  \/ k < Len(nodes) /\ {nodes[k], nodes[k + 1]} = {a, b}
            \/ /\ k = Len(nodes) /\ chains[ck[1]].is_closed
               /\ {nodes[k], nodes[1]} = {a, b} })

\* C36: every add_segment call keeps the segments of the chains: afterwards
\* the chains hold the segment just added once more than before and every
\* other segment as often as before, so that after any sequence of calls the
\* chains hold exactly the segments that were added.
C36_SegmentConservation ==
    ConnectorReady =>
        \A b, e \in ConnectorPoints :
            b # e =>
                \A o \in add_segment(open_polygons, closed_polygons, Segment(b, e)) :
                    (~o.panic /\ ~o.oob) =>
                        \A a1, a2 \in ConnectorPoints :
                            Held(o.open \o o.closed, a1, a2) =
                                Held(open_polygons \o closed_polygons, a1, a2)
                                    + (IF {a1, a2} = {b, e} THEN 1 ELSE 0)

\* C37: every closed chain has at least three points.
C37_ClosedChainsHaveThreePoints ==
    ~out_of_bounds =>
        \A k \in 1..Len(closed_polygons) : Len(closed_polygons[k].nodes) >= 3

\* the points a and b follow each other, in either order, in the sequence
Consecutive(nodes, a, b) ==
    \E k \in 1..(Len(nodes) - 1) : {nodes[k], nodes[k + 1]} = {a, b}

\* the two chains have no point in common, or one that is an end of both
Weldable(self, chain) ==
    /\ Cardinality(Range(self.nodes) \cap Range(chain.nodes)) <= 1
    /\ Range(self.nodes) \cap Range(chain.nodes) \subseteq Ends(self) \cap Ends(chain)

\* C38: link_point_chain(self, chain) answers true exactly when an end of
\* chain is an end of self; self then holds the points of both chains, the
\* shared end once, and any two points that follow each other in it followed
\* each other in self or in chain; when it answers false self is unchanged.
C38_ValidConcatenation ==
    (pc = "link" /\ Weldable(open_polygons[1], open_polygons[2])) =>
        LET self == open_polygons[1]
            chain == open_polygons[2]
            r == link_point_chain(self, chain)
        IN  /\ r.linked <=> (Ends(self) \cap Ends(chain) # {})
            /\ ~r.linked => r.chain = self
            /\ r.linked =>
                 /\ Len(r.chain.nodes) = Len(self.nodes) + Len(chain.nodes) - 1
                 /\ Range(r.chain.nodes) = Range(self.nodes) \cup Range(chain.nodes)
                 /\ \A k \in 1..(Len(r.chain.nodes) - 1) :
                      \/ Consecutive(self.nodes, r.chain.nodes[k], r.chain.nodes[k + 1])
                      \/ Consecutive(chain.nodes, r.chain.nodes[k], r.chain.nodes[k + 1])

-----------------------------------------------------------------------------
(* The rounding-safety rule of divide_segment *)

\* point a comes before point b in sweep order
PointBefore(a, b) == a.x < b.x \/ (a.x = b.x /\ a.y < b.y)

\* the event that the step divides: the one now paired with the new right event
Divided == CHOOSE e \in DOMAIN events : events'[e].other = Len(events) + 1

\* C39: when divide_segment(e, p) creates a left event at p that does not
\* precede the right event it is paired with, the former twin of e, the left
\* flags of exactly these two events are exchanged, and after the call every
\* event and its twin are one left and one right event, the left one
\* preceding the right one.
C39_RoundingSafety ==
    [][ (pc = "loop" /\ pc' = "divided") =>
          LET left == Len(events) + 2
              right == Len(events) + 1
              twin == events[Divided].other
          IN  ~PointBefore(events'[left].p, events[twin].p) =>
                /\ ~events'[left].left /\ events'[twin].left
                /\ ~events'[right].left
                /\ \A x \in DOMAIN events : x # twin => events'[x].left = events[x].left
                /\ \A x \in DOMAIN events' :
                     /\ events'[x].left # events'[events'[x].other].left
                     /\ events'[x].left => precedes(events', x, events'[x].other) ]_vars

\* a segment has been divided at a point beyond its right end, and the flags
\* of the new left event and of the former twin have been exchanged
C39_Witness ==
    /\ pc = "divided"
    /\ LET left == Len(events)
           twin == events[left].other
       IN  /\ ~events[left].left /\ events[twin].left
           /\ PointBefore(events[twin].p, events[left].p)

====
